---- MODULE Spec2Model ----
(***************************************************************************)
(* EV charging knowledge graph: the Overpass fetcher with its retry loop   *)
(* (src/src/overpass_query.py) and the concurrent rescoring run            *)
(* (src/pages/Rescoring.py).                                               *)
(*                                                                         *)
(* Several specifications share the module.  SpecFetch runs one call of    *)
(* _fetch_overpass_data against an endpoint whose successive answers are   *)
(* drawn in FetchInit.  SpecExtract runs _build_node_index and             *)
(* _extract_features over a raw element list, SpecDensity one call of      *)
(* calculate_ev_charging_density.  Spec and SpecScore run one submission   *)
(* of the rescoring form against a store drawn in Init.  Each leaves the   *)
(* variables of the others idle.                                           *)
(***************************************************************************)
EXTENDS Integers, Sequences, FiniteSets, TLC

VARIABLES
    \* ---- _fetch_overpass_data ----
    endpoint,      \* the answers the endpoint gives to successive requests
    attempt,       \* loop variable of `for attempt in range(max_retries)`
    fpc,           \* "idle" | "request" | "sleep" | "returned" | "raised" | "fell_through"
    requests,      \* number of requests.get calls issued so far
    sleeps,        \* arguments of the time.sleep calls, in order
    fresult,       \* value returned to the caller
    fexc,          \* exception that left the function ("none" when none)
    flog,          \* lines printed by the function
    \* ---- rescoring page ----
    db,            \* the graph store
    w,             \* w1..w5, in tenths (slider step 0.1)
    mainpc,        \* position of the page script
    municipalities,\* result of the region query
    total,         \* len(municipalities)
    completed,     \* counter of the as_completed loop
    progress_bar,  \* the st.progress element
    queue,         \* work items of the executor not yet taken by a worker
    future,        \* state of each submitted future
    collected,     \* futures already yielded by as_completed
    task,          \* local state of each process_municipality call
    starts,        \* how many times process_municipality was entered, per region
    write_log,     \* the batches handed to the store by successful writes
    out,           \* lines printed / shown on the page
    faults,        \* store faults injected so far
    \* ---- feature extraction and calculate_ev_charging_density ----
    area_km2,      \* area of the geometry handed to calculate_ev_charging_density
    elements,      \* raw elements handed to the extractor
    node_idx,      \* result of _build_node_index
    features,      \* result of _extract_features
    dpc,           \* "idle" | "fetch" | "index" | "extract" | "count" | "raised" | "returned"
    dexc,          \* exception raised by the extractor ("none" when none)
    dresult,       \* pair returned by calculate_ev_charging_density
    dlog,          \* lines printed by calculate_ev_charging_density
    \* ---- history ----
    db0            \* the graph store as it was when the page was loaded

fvars == <<endpoint, attempt, fpc, requests, sleeps, fresult, fexc, flog>>
rvars == <<db, w, mainpc, municipalities, total, completed, progress_bar,
           queue, future, collected, task, starts, write_log, out, faults>>
dvars == <<area_km2, elements, node_idx, features, dpc, dexc, dresult, dlog>>
vars == <<fvars, rvars, dvars, db0>>

(***************************************************************************)
(* Sequences helpers                                                       *)
(***************************************************************************)
Range(s) == {s[i] : i \in 1..Len(s)}

(***************************************************************************)
(* Part 1: _fetch_overpass_data                                            *)
(***************************************************************************)

\* Element payloads a well-formed Overpass answer may carry.
ElementLists == {<<>>, <<"n1">>, <<"n1", "w2">>}

\* What one requests.get can meet.  net: the transport outcome; status: the
\* HTTP status; json: whether the body parses and to what; has_elements /
\* elements: the "elements" member of a JSON object body.
NoBody == [json |-> "invalid", has_elements |-> FALSE, elements |-> <<>>]

Bodies ==
    {NoBody,
     [json |-> "array", has_elements |-> FALSE, elements |-> <<>>],
     [json |-> "object", has_elements |-> FALSE, elements |-> <<>>]}
    \cup {[json |-> "object", has_elements |-> TRUE, elements |-> e] : e \in ElementLists}

Outcomes ==
    {[net |-> n, status |-> 0, body |-> NoBody] : n \in {"ConnectionError", "Timeout"}}
    \cup {[net |-> "ok", status |-> 200, body |-> b] : b \in Bodies}
    \cup {[net |-> "ok", status |-> s, body |-> NoBody] : s \in {429, 504}}

max_retries == 3
backoff == 2

\* How many answers of the endpoint FetchInit draws (one more than a call
\* may consume).
MaxAnswers == 4

\* resp.raise_for_status(): HTTPError for 4xx and 5xx.
raise_for_status(resp) == resp.status >= 400 /\ resp.status < 600

\* The exception raised inside the try block for one answer, "none" if the
\* return statement is reached.
try_block(o) ==
    IF o.net # "ok" THEN o.net                          \* requests.get raises
    ELSE IF raise_for_status(o) THEN "HTTPError"
    ELSE IF o.body.json = "invalid" THEN "JSONDecodeError" \* resp.json()
    ELSE IF o.body.json # "object" THEN "AttributeError"   \* data.get on a non-dict
    ELSE "none"

\* except (requests.exceptions.RequestException, ValueError)
caught(exc) == exc \in {"ConnectionError", "Timeout", "HTTPError", "JSONDecodeError"}

\* data.get("elements", [])
get_elements(body) == IF body.has_elements THEN body.elements ELSE <<>>

\* A backoff that starts one doubling too far.
wait_doubled(a) == backoff * (2 ^ (a + 1))

\* wait = backoff * (2 ** attempt)
wait_of(a) == backoff * (2 ^ a)

\* A retry test that gives up one attempt early.
gives_up_early(a) == a < max_retries - 2

\* `attempt < max_retries - 1`
has_retry_left(a) == a < max_retries - 1

FetchIdle ==
    /\ endpoint = <<>> /\ attempt = 0 /\ fpc = "idle" /\ requests = 0
    /\ sleeps = <<>> /\ fresult = <<>> /\ fexc = "none" /\ flog = <<>>

\* One pass through the try block, and through the except block up to the
\* sleep or the return.
Request ==
    /\ fpc = "request"
    /\ requests < Len(endpoint)
    /\ LET o == endpoint[requests + 1]
           exc == try_block(o)
       IN /\ requests' = requests + 1
          /\ IF exc = "none"
             THEN /\ fresult' = get_elements(o.body)
                  /\ fpc' = "returned"
                  /\ UNCHANGED <<fexc, flog>>
             ELSE IF ~caught(exc)
             THEN /\ fexc' = exc
                  /\ fpc' = "raised"
                  /\ UNCHANGED <<fresult, flog>>
             ELSE IF has_retry_left(attempt)
             THEN /\ flog' = Append(flog, <<"retrying", exc, wait_of(attempt)>>)
                  /\ fpc' = "sleep"
                  /\ UNCHANGED <<fresult, fexc>>
             ELSE /\ flog' = Append(flog, <<"no_more_retries", exc, 0>>)
                  /\ fresult' = <<>>
                  /\ fpc' = "returned"
                  /\ UNCHANGED fexc
    /\ UNCHANGED <<endpoint, attempt, sleeps, rvars, dvars, db0>>

\* time.sleep(wait), then the next iteration of the for loop.
Sleep ==
    /\ fpc = "sleep"
    /\ sleeps' = Append(sleeps, wait_of(attempt))
    /\ attempt' = attempt + 1
    /\ fpc' = IF attempt + 1 < max_retries THEN "request" ELSE "fell_through"
    /\ UNCHANGED <<endpoint, requests, fresult, fexc, flog, rvars, dvars, db0>>

FetchNext == Request \/ Sleep

(***************************************************************************)
(* Part 2: values read from the store                                      *)
(*                                                                         *)
(* A property value is null, a number (an exact fraction n/d, d > 0, in    *)
(* lowest terms) or something that is not a number (a string).             *)
(***************************************************************************)
RECURSIVE GCD(_, _)
GCD(a, b) == IF b = 0 THEN a ELSE GCD(b, a % b)

Abs(x) == IF x < 0 THEN -x ELSE x

None == [k |-> "none", n |-> 0, d |-> 1]
Text == [k |-> "str", n |-> 0, d |-> 1]

\* The fraction n/d in lowest terms.
Fraction[n \in Int, d \in Nat] ==
    [k |-> "num", n |-> n \div GCD(Abs(n), d), d |-> d \div GCD(Abs(n), d)]

Num(n, d) == Fraction[n, d]

IsNum(v) == v.k = "num"

Fractions == [k : {"num"}, n : Int, d : Nat]

Sum[a \in Fractions, b \in Fractions] == Fraction[a.n * b.d + b.n * a.d, a.d * b.d]
Product[a \in Fractions, b \in Fractions] == Fraction[a.n * b.n, a.d * b.d]
\* a / b for b # 0
Quotient[a \in Fractions, b \in Fractions] ==
    IF b.n > 0 THEN Fraction[a.n * b.d, a.d * b.n] ELSE Fraction[-(a.n * b.d), a.d * (-b.n)]

RAdd(a, b) == Sum[a, b]
RMul(a, b) == Product[a, b]
RDiv(a, b) == Quotient[a, b]
RInt(i) == Num(i, 1)

(***************************************************************************)
(* Part 3: process_municipality                                            *)
(***************************************************************************)

\* The sliders return floats in steps of 0.1: a weight is kept in tenths.
Weight(tenths) == Num(tenths, 10)

\* The rows `session.run(MATCH (c)-[:IS_LOCATED_IN]->(p)-[:IS_LOCATED_IN]->(m {name}))`
\* returns for one municipality name, in candidate order.
CandsOf(store, name) ==
    {c \in DOMAIN store.cand :
        /\ store.cand[c].pc4 \in DOMAIN store.pc4
        /\ store.pc4[store.cand[c].pc4].municipality = name
        /\ name \in DOMAIN store.muni}

Row(store, c) ==
    LET cand == store.cand[c]
        p == store.pc4[cand.pc4]
        m == store.muni[p.municipality]
    IN [lat |-> cand.lat, lon |-> cand.lon,
        distance_to_nearest |-> cand.distance_to_nearest,
        pc4_density |-> p.density,
        home_value |-> m.home_value,
        vehicles |-> m.vehicles,
        pop_density |-> m.population_density]

SortedSeq[S \in SUBSET Int] ==
    IF S = {} THEN <<>>
    ELSE LET x == CHOOSE y \in S : \A z \in S : y <= z
         IN <<x>> \o SortedSeq[S \ {x}]

\* A read that takes the region properties of the first region for every
\* municipality name.
read_rows_of_first_region(store, name) ==
    LET ids == SortedSeq[CandsOf(store, name)]
    IN [i \in 1..Len(ids) |->
          [Row(store, ids[i]) EXCEPT
              !.home_value = store.muni[1].home_value,
              !.vehicles = store.muni[1].vehicles,
              !.pop_density = store.muni[1].population_density]]

read_rows(store, name) ==
    LET ids == SortedSeq[CandsOf(store, name)]
    IN [i \in 1..Len(ids) |-> Row(store, ids[i])]

\* A null test that looks at the candidate's and the area's values only.
has_none_outside_region(record) ==
    \E f \in {"lat", "lon", "distance_to_nearest", "pc4_density"} : record[f] = None

\* `if None in record.values()`
has_none(record) == \E f \in DOMAIN record : record[f] = None

\* The exception the score expression raises on a record without nulls
\* ("none" when it evaluates), operands taken left to right.
score_exception(record) ==
    IF ~IsNum(record.distance_to_nearest) THEN "TypeError"
    ELSE IF ~IsNum(record.pc4_density) THEN "TypeError"
    ELSE IF RAdd(record.pc4_density, RInt(1)).n = 0 THEN "ZeroDivisionError"
    ELSE IF ~IsNum(record.home_value) THEN "TypeError"
    ELSE IF ~IsNum(record.vehicles) THEN "TypeError"
    ELSE IF ~IsNum(record.pop_density) THEN "TypeError"
    ELSE "none"

\* The five terms of the score expression.
term_distance(record, ww) == RMul(Weight(ww[1]), record.distance_to_nearest)
term_density(record, ww) ==
    RMul(Weight(ww[2]), RDiv(RInt(1), RAdd(record.pc4_density, RInt(1))))
term_home_value_per_10000(record, ww) ==
    RMul(Weight(ww[3]), RDiv(record.home_value, RInt(10000)))
term_home_value(record, ww) == RMul(Weight(ww[3]), RDiv(record.home_value, RInt(100000)))
term_vehicles(record, ww) == RMul(Weight(ww[4]), RDiv(record.vehicles, RInt(1000)))
term_pop_density(record, ww) == RMul(Weight(ww[5]), RDiv(record.pop_density, RInt(1000)))

score_value(record, ww) ==
    RAdd(RAdd(RAdd(RAdd(term_distance(record, ww), term_density(record, ww)),
                   term_home_value(record, ww)),
              term_vehicles(record, ww)),
         term_pop_density(record, ww))

\* A loop without the null test.
never_skips(record) == FALSE

\* Whether the loop leaves this record out (`continue`).
skips(record) == has_none(record)

\* The records of a result and the entries of all_candidates.
Values == {None, Text} \cup Fractions
Records ==
    [lat : Values, lon : Values, distance_to_nearest : Values, pc4_density : Values,
     home_value : Values, vehicles : Values, pop_density : Values]
Entries == [lat : Values, lon : Values, score : Values]

\* The `for record in result` loop over the records still to come: the
\* exception that ends it ("none" when it runs through) and all_candidates
\* as built so far.
score_loop[records \in Seq(Records), ww \in Seq(Int), acc \in Seq(Entries)] ==
    IF records = <<>> THEN [exc |-> "none", all_candidates |-> acc]
    ELSE LET record == Head(records)
         IN IF skips(record) THEN score_loop[Tail(records), ww, acc]
            ELSE IF score_exception(record) # "none"
            THEN [exc |-> score_exception(record), all_candidates |-> acc]
            ELSE score_loop[Tail(records), ww,
                            Append(acc, [lat |-> record.lat, lon |-> record.lon,
                                         score |-> score_value(record, ww)])]

Min(a, b) == IF a < b THEN a ELSE b

\* batched(iterable, n): successive lists of n items, the last one shorter.
batched[items \in Seq(Entries), n \in Int] ==
    IF items = <<>> \/ n <= 0 THEN <<>>
    ELSE <<SubSeq(items, 1, Min(n, Len(items)))>>
         \o batched[SubSeq(items, Min(n, Len(items)) + 1, Len(items)), n]

\* SET c = candidate: the entry replaces the properties of the node.
set_properties(cand, entry) ==
    [cand EXCEPT !.score = entry.score, !.distance_to_nearest = None]

\* SET c.score = candidate.score
set_score(cand, entry) == [cand EXCEPT !.score = entry.score]

\* A write that sets one stored candidate per entry, the first that matches.
set_score_of_first_match(cands, batch) ==
    [c \in DOMAIN cands |->
        LET hits == {k \in 1..Len(batch) :
                        /\ batch[k].lat = cands[c].lat
                        /\ batch[k].lon = cands[c].lon}
            first == \A d \in DOMAIN cands :
                        (cands[d].lat = cands[c].lat /\ cands[d].lon = cands[c].lon) => c <= d
        IN IF hits = {} \/ ~first THEN cands[c]
           ELSE [cands[c] EXCEPT
                    !.score = batch[CHOOSE k \in hits : \A j \in hits : j <= k].score]]

\* UNWIND $candidates ... MATCH (c {location: point(lat, lon)}) SET c.score:
\* every stored candidate at the coordinates of an entry takes its score,
\* the entries applied in list order.
set_scores(cands, batch) ==
    [c \in DOMAIN cands |->
        LET hits == {k \in 1..Len(batch) :
                        /\ batch[k].lat = cands[c].lat
                        /\ batch[k].lon = cands[c].lon}
        IN IF hits = {} THEN cands[c]
           ELSE set_score(cands[c], batch[CHOOSE k \in hits : \A j \in hits : j <= k])]

(***************************************************************************)
(* Part 4: the rescoring page                                              *)
(***************************************************************************)

\* Chunk size of the score writes and size of the worker pool.  The page
\* sets 1000 and 8; the model keeps them small so that a region of a few
\* candidates needs more than one chunk and a few regions fill the pool.
BATCH_SIZE == 2
MAX_THREADS == 2

\* Bounds of the stores drawn in Init.
MaxRegions == 3
MaxFaults == 1
MaxRecords == 2

\* Slider settings the operator may submit (tenths): the defaults of the
\* form and one other setting.
WeightChoices == {<<30, 50, 5, 20, 10>>, <<10, 0, 25, 100, 7>>}

Finished(f) == f \in {"done", "failed"}

Running == {i \in DOMAIN future : future[i] = "running"}

NewTask == [pc |-> "queued", records |-> <<>>, all_candidates |-> <<>>,
            batches |-> <<>>, exc |-> "none"]

\* MATCH (m:Municipality) RETURN m.name
region_query(store) == SortedSeq[DOMAIN store.muni]

\* The value handed to progress_bar.progress, as the fraction num/den.
progress_value(done, n) == [visible |-> TRUE, num |-> done, den |-> n]

\* An as_completed that also yields futures still pending or running.
yields_unfinished(i) == future[i] # "none" /\ i \notin collected

\* The futures as_completed may yield next.
yieldable(i) == Finished(future[i]) /\ i \notin collected

\* A work queue whose items stay in it when taken.
take_keeps(q) == q

\* The work queue after a worker took its oldest item.
take(q) == Tail(q)

\* The form is submitted: weights are read from the sliders, the region
\* query runs and the progress bar is created.
SubmitForm ==
    /\ mainpc = "form"
    /\ \E ww \in WeightChoices : w' = ww
    /\ municipalities' = region_query(db)
    /\ total' = Len(region_query(db))
    /\ completed' = 0
    /\ progress_bar' = [visible |-> TRUE, num |-> 0, den |-> 1]
    /\ future' = [i \in 1..Len(region_query(db)) |-> "none"]
    /\ task' = [i \in 1..Len(region_query(db)) |-> NewTask]
    /\ starts' = [i \in 1..Len(region_query(db)) |-> 0]
    /\ write_log' = [i \in 1..Len(region_query(db)) |-> <<>>]
    /\ out' = out \cup {<<"started", 0, 0>>}
    /\ mainpc' = "submit"
    /\ UNCHANGED <<db, queue, collected, faults, fvars, dvars, db0>>

\* executor.submit(process_municipality, m) for the next m of the list.
SubmitTask ==
    /\ mainpc = "submit"
    /\ \E i \in DOMAIN future :
        /\ future[i] = "none"
        /\ \A j \in DOMAIN future : j < i => future[j] # "none"
        /\ future' = [future EXCEPT ![i] = "pending"]
        /\ queue' = Append(queue, i)
    /\ UNCHANGED <<db, w, mainpc, municipalities, total, completed, progress_bar,
                   collected, task, starts, write_log, out, faults, fvars, dvars, db0>>

\* The comprehension is exhausted: the as_completed loop begins.
EnterLoop ==
    /\ mainpc = "submit"
    /\ \A i \in DOMAIN future : future[i] # "none"
    /\ mainpc' = "as_completed"
    /\ UNCHANGED <<db, w, municipalities, total, completed, progress_bar, queue,
                   future, collected, task, starts, write_log, out, faults, fvars, dvars, db0>>

\* A worker thread takes the oldest work item and enters process_municipality.
Start(i) ==
    /\ queue # <<>>
    /\ Head(queue) = i
    /\ Cardinality(Running) < MAX_THREADS
    /\ queue' = take(queue)
    /\ future' = [future EXCEPT ![i] = "running"]
    /\ task' = [task EXCEPT ![i].pc = "read"]
    /\ starts' = [starts EXCEPT ![i] = @ + 1]
    /\ UNCHANGED <<db, w, mainpc, municipalities, total, completed, progress_bar,
                   collected, write_log, out, faults, fvars, dvars, db0>>

\* An exception that ends the worker without completing the future.
RaiseLost(i, exc) ==
    /\ task' = [task EXCEPT ![i].pc = "finished", ![i].exc = exc]
    /\ UNCHANGED future

\* An exception leaves process_municipality: the future keeps it.
Raise(i, exc) ==
    /\ task' = [task EXCEPT ![i].pc = "finished", ![i].exc = exc]
    /\ future' = [future EXCEPT ![i] = "failed"]

\* The read query of the task.
Read(i) ==
    /\ task[i].pc = "read"
    /\ \/ /\ task' = [task EXCEPT ![i].pc = "score",
                                  ![i].records = read_rows(db, municipalities[i])]
          /\ UNCHANGED <<future, faults>>
       \/ /\ faults < MaxFaults
          /\ faults' = faults + 1
          /\ Raise(i, "ServiceUnavailable")
    /\ UNCHANGED <<db, w, mainpc, municipalities, total, completed, progress_bar,
                   queue, collected, starts, write_log, out, fvars, dvars, db0>>

\* Chunks without the short one at the end.
full_chunks_only(all_candidates) ==
    SelectSeq(batched[all_candidates, BATCH_SIZE], LAMBDA b : Len(b) = BATCH_SIZE)

\* `for batch in batched(all_candidates, BATCH_SIZE)`
write_chunks(all_candidates) == batched[all_candidates, BATCH_SIZE]

\* A loop that gives a skipped record an entry with a null score.
scored_clearing_skipped(i) ==
    [score_loop[task[i].records, w, <<>>] EXCEPT
        !.all_candidates =
            @ \o [k \in 1..Len(SelectSeq(task[i].records, skips)) |->
                    [lat |-> SelectSeq(task[i].records, skips)[k].lat,
                     lon |-> SelectSeq(task[i].records, skips)[k].lon,
                     score |-> None]]]

\* The loop over the records of task i.
scored(i) == score_loop[task[i].records, w, <<>>]

Score(i) ==
    /\ task[i].pc = "score"
    /\ \E res \in {scored(i)} :
          \/ /\ res.exc # "none"
             /\ Raise(i, res.exc)
          \/ /\ res.exc = "none"
             /\ \E chunks \in {write_chunks(res.all_candidates)} :
                   task' = [task EXCEPT ![i].pc = "write",
                                        ![i].all_candidates = res.all_candidates,
                                        ![i].batches = chunks]
             /\ UNCHANGED future
    /\ UNCHANGED <<db, w, mainpc, municipalities, total, completed, progress_bar,
                   queue, collected, starts, write_log, out, faults, fvars, dvars, db0>>

\* A write loop that catches the failure of a chunk and goes on with the next.
WriteSkipsFailedChunk(i) ==
    /\ task[i].pc = "write"
    /\ task[i].batches # <<>>
    /\ \/ /\ db' = [db EXCEPT !.cand = set_scores(@, Head(task[i].batches))]
          /\ write_log' = [write_log EXCEPT ![i] = Append(@, Head(task[i].batches))]
          /\ task' = [task EXCEPT ![i].batches = Tail(@)]
          /\ UNCHANGED <<future, faults>>
       \/ /\ faults < MaxFaults
          /\ faults' = faults + 1
          /\ task' = [task EXCEPT ![i].batches = Tail(@)]
          /\ UNCHANGED <<db, write_log, future>>
    /\ UNCHANGED <<w, mainpc, municipalities, total, completed, progress_bar,
                   queue, collected, starts, out, fvars, dvars, db0>>

\* The write of the next chunk.
Write(i) ==
    /\ task[i].pc = "write"
    /\ task[i].batches # <<>>
    /\ \/ /\ db' = [db EXCEPT !.cand = set_scores(@, Head(task[i].batches))]
          /\ write_log' = [write_log EXCEPT ![i] = Append(@, Head(task[i].batches))]
          /\ task' = [task EXCEPT ![i].batches = Tail(@)]
          /\ UNCHANGED <<future, faults>>
       \/ /\ faults < MaxFaults
          /\ faults' = faults + 1
          /\ Raise(i, "ServiceUnavailable")
          /\ UNCHANGED <<db, write_log>>
    /\ UNCHANGED <<w, mainpc, municipalities, total, completed, progress_bar,
                   queue, collected, starts, out, fvars, dvars, db0>>

\* All chunks are written: the closing line is printed and the call returns.
PrintScored(i) ==
    /\ task[i].pc = "write"
    /\ task[i].batches = <<>>
    /\ out' = out \cup {<<"scored", municipalities[i], Len(task[i].all_candidates)>>}
    /\ task' = [task EXCEPT ![i].pc = "finished"]
    /\ future' = [future EXCEPT ![i] = "done"]
    /\ UNCHANGED <<db, w, mainpc, municipalities, total, completed, progress_bar,
                   queue, collected, starts, write_log, faults, fvars, dvars, db0>>

\* One iteration of `for future in as_completed(futures)`.
Collect(i) ==
    /\ mainpc = "as_completed"
    /\ yieldable(i)
    /\ collected' = collected \cup {i}
    /\ completed' = completed + 1
    /\ progress_bar' = progress_value(completed + 1, total)
    /\ UNCHANGED <<db, w, mainpc, municipalities, total, queue, future, task,
                   starts, write_log, out, faults, fvars, dvars, db0>>

\* as_completed is exhausted, the executor is shut down (waiting for its
\* work items), the progress bar is removed and the summary is shown.
Finish ==
    /\ mainpc = "as_completed"
    /\ collected = DOMAIN future
    /\ queue = <<>>
    /\ \A i \in DOMAIN future : Finished(future[i])
    /\ progress_bar' = [progress_bar EXCEPT !.visible = FALSE]
    /\ out' = out \cup {<<"summary", 0, 0>>}
    /\ mainpc' = "done"
    /\ UNCHANGED <<db, w, municipalities, total, completed, queue, future,
                   collected, task, starts, write_log, faults, fvars, dvars, db0>>

Next ==
    \/ SubmitForm
    \/ SubmitTask
    \/ EnterLoop
    \/ \E i \in DOMAIN future : Start(i)
    \/ \E i \in DOMAIN future : Read(i)
    \/ \E i \in DOMAIN future : Score(i)
    \/ \E i \in DOMAIN future : Write(i)
    \/ \E i \in DOMAIN future : PrintScored(i)
    \/ \E i \in DOMAIN future : Collect(i)
    \/ Finish

(***************************************************************************)
(* Part 5: feature extraction and calculate_ev_charging_density            *)
(*                                                                         *)
(* A raw element carries its type, its id, its tags ("missing" when the    *)
(* key is absent, "empty" for an empty dict), for a node its coordinates   *)
(* and for a way the ids of its nodes (has_nodes: whether the key is       *)
(* there).  A coordinate is the pair <<lon, lat>>; NoPoint is the None     *)
(* that dict.get returns for an id the index does not hold.                *)
(***************************************************************************)
NoPoint == <<>>

Node(id, tags) ==
    [type |-> "node", id |-> id, tags |-> tags, lon |-> id, lat |-> 50 + id,
     has_nodes |-> FALSE, nodes |-> <<>>]
Way(id, tags, has_nodes, refs) ==
    [type |-> "way", id |-> id, tags |-> tags, lon |-> 0, lat |-> 0,
     has_nodes |-> has_nodes, nodes |-> refs]
Relation(id, tags) ==
    [type |-> "relation", id |-> id, tags |-> tags, lon |-> 0, lat |-> 0,
     has_nodes |-> FALSE, nodes |-> <<>>]

\* {el["id"]: (el["lon"], el["lat"]) for el in elements if el["type"] == "node"}:
\* a later node replaces an earlier one of the same id.
build_node_index(els) ==
    LET at == {k \in 1..Len(els) : els[k].type = "node"}
    IN [i \in {els[k].id : k \in at} |->
          LET last == CHOOSE k \in at :
                         /\ els[k].id = i
                         /\ \A j \in at : els[j].id = i => j <= k
          IN <<els[last].lon, els[last].lat>>]

\* node_index.get(n)
index_get(idx, n) == IF n \in DOMAIN idx THEN idx[n] ELSE NoPoint

\* `not tags`
not_tags(el) == el.tags \in {"missing", "empty"}

\* [node_index.get(n) for n in el.get("nodes", [])]
looked_up(el, idx) ==
    LET refs == IF el.has_nodes THEN el.nodes ELSE <<>>
    IN [k \in 1..Len(refs) |-> index_get(idx, refs[k])]

\* A way whose unresolved references stay in the list.
keeps_unresolved(pts) == pts

\* [p for p in pts if p is not None]
drop_unresolved(pts) == SelectSeq(pts, LAMBDA q : q # NoPoint)

\* `len(pts) >= 3`
enough_points(pts) == Len(pts) >= 3

\* What shapely's Polygon(pts) raises: a None among the points is no
\* coordinate, one or two points make no ring.
polygon_exception(pts) ==
    IF \E k \in 1..Len(pts) : pts[k] = NoPoint THEN "TypeError"
    ELSE IF Len(pts) \in {1, 2} THEN "ValueError"
    ELSE "none"

\* Point(lon, lat), and the centroid that stands for Polygon(pts).
Point(lon, lat) == [kind |-> "Point", of |-> <<(<<lon, lat>>)>>]
centroid(pts) == [kind |-> "Point", of |-> pts]
NoGeom == [kind |-> "None", of |-> <<>>]

\* The geometry one element gets, with the exception raised on the way.
geometry_of(el, idx) ==
    IF el.type = "node" THEN [exc |-> "none", geom |-> Point(el.lon, el.lat)]
    ELSE IF el.type = "way"
    THEN LET pts == drop_unresolved(looked_up(el, idx))
         IN IF enough_points(pts)
            THEN IF polygon_exception(pts) # "none"
                 THEN [exc |-> polygon_exception(pts), geom |-> NoGeom]
                 ELSE [exc |-> "none", geom |-> centroid(pts)]
            ELSE [exc |-> "none", geom |-> NoGeom]
    ELSE [exc |-> "none", geom |-> NoGeom]

\* The loop of _extract_features over the elements still to come.
RECURSIVE extract_loop(_, _, _)
extract_loop(els, idx, acc) ==
    IF els = <<>> THEN [exc |-> "none", features |-> acc]
    ELSE LET el == Head(els)
         IN IF not_tags(el) THEN extract_loop(Tail(els), idx, acc)
            ELSE LET g == geometry_of(el, idx)
                 IN IF g.exc # "none" THEN [exc |-> g.exc, features |-> acc]
                    ELSE IF g.geom = NoGeom THEN extract_loop(Tail(els), idx, acc)
                    ELSE extract_loop(Tail(els), idx,
                                      Append(acc, [tags |-> el.tags, geometry |-> g.geom]))

extract_features(els, idx) == extract_loop(els, idx, <<>>)

\* The elements the names of ElementLists stand for: a tagged node, and a
\* tagged way over that node and two nodes the answer does not carry.
raw_element(name) ==
    IF name = "n1" THEN Node(1, "tagged") ELSE Way(2, "tagged", TRUE, <<1, 7, 8>>)

raw_elements(names) == [k \in 1..Len(names) |-> raw_element(names[k])]

DensityIdle ==
    /\ area_km2 = 0 /\ elements = <<>> /\ node_idx = <<>> /\ features = <<>>
    /\ dpc = "idle" /\ dexc = "none" /\ dresult = <<>> /\ dlog = <<>>

\* _fetch_overpass_data returned its list to query_overpass_candidates_inside_pc4_area.
FetchReturns ==
    /\ dpc = "fetch"
    /\ fpc = "returned"
    /\ elements' = raw_elements(fresult)
    /\ dpc' = "index"
    /\ UNCHANGED <<area_km2, node_idx, features, dexc, dresult, dlog, fvars, rvars, db0>>

\* node_idx = _build_node_index(elements)
BuildNodeIndex ==
    /\ dpc = "index"
    /\ node_idx' = build_node_index(elements)
    /\ dpc' = "extract"
    /\ UNCHANGED <<area_km2, elements, features, dexc, dresult, dlog, fvars, rvars, db0>>

\* features = _extract_features(elements, node_idx); the frame and its
\* length follow the feature list.
ExtractFeatures ==
    /\ dpc = "extract"
    /\ LET r == extract_features(elements, node_idx)
       IN IF r.exc # "none"
          THEN /\ dexc' = r.exc
               /\ dpc' = "raised"
               /\ UNCHANGED features
          ELSE /\ features' = r.features
               /\ dpc' = "count"
               /\ UNCHANGED dexc
    /\ UNCHANGED <<area_km2, elements, node_idx, dresult, dlog, fvars, rvars, db0>>

\* `except Exception as e`: whatever left the try block is printed and
\* (None, None) is returned.  A fetch that ran off its loop hands None to
\* _build_node_index, which raises on iterating it.
HandleException ==
    /\ \/ dpc = "fetch" /\ fpc \in {"raised", "fell_through"}
       \/ dpc = "raised"
    /\ dresult' = <<None, None>>
    /\ dlog' = Append(dlog, "Overpass API error")
    /\ dpc' = "returned"
    /\ UNCHANGED <<area_km2, elements, node_idx, features, dexc, fvars, rvars, db0>>

\* num_stations = len(stations_gdf);
\* density = num_stations / area_km2 if area_km2 > 0 else 0
Density ==
    /\ dpc = "count"
    /\ dresult' = <<RInt(Len(features)),
                    IF area_km2 > 0 THEN Num(Len(features), area_km2) ELSE RInt(0)>>
    /\ dpc' = "returned"
    /\ UNCHANGED <<area_km2, elements, node_idx, features, dexc, dlog, fvars, rvars, db0>>

ExtractNext == BuildNodeIndex \/ ExtractFeatures

DensityNext ==
    \/ Request
    \/ Sleep
    \/ FetchReturns
    \/ BuildNodeIndex
    \/ ExtractFeatures
    \/ HandleException
    \/ Density

(***************************************************************************)
(* Stores                                                                  *)
(***************************************************************************)
Odd(i) == i % 2 = 1

\* Region 1 holds one candidate more than a chunk, region 2 one candidate,
\* further regions none.
NumCands == BATCH_SIZE + 2
AreaRegion(p) == IF p <= BATCH_SIZE + 1 THEN 1 ELSE 2

RegionAttrs(m) ==
    IF Odd(m)
    THEN [home_value |-> RInt(300000), vehicles |-> RInt(5000),
          population_density |-> RInt(2000)]
    ELSE [home_value |-> RInt(150000), vehicles |-> RInt(2000),
          population_density |-> RInt(500)]

BaseStore(n, dup) ==
    [cand |-> [c \in 1..NumCands |->
                 [lat |-> RInt(IF dup /\ c = NumCands THEN 1 ELSE c),
                  lon |-> RInt(IF dup /\ c = NumCands THEN 1 ELSE c),
                  distance_to_nearest |-> IF Odd(c) THEN RInt(2) ELSE Num(1, 2),
                  pc4 |-> c,
                  score |-> IF Odd(c) THEN RInt(7) ELSE None]],
     pc4 |-> [p \in 1..NumCands |->
                 [density |-> IF Odd(p) THEN RInt(4) ELSE RInt(0),
                  municipality |-> AreaRegion(p)]],
     muni |-> [m \in 1..n |-> RegionAttrs(m)]]

\* One flawed property, or none.
Flaws(n) ==
    {<<"none", 0>>, <<"distance_null", 1>>, <<"density_minus_one", 2>>,
     <<"density_text", NumCands>>}
    \cup {<<"home_value_null", m>> : m \in 1..n}

Flawed(store, flaw) ==
    CASE flaw[1] = "none" -> store
      [] flaw[1] = "distance_null" ->
            [store EXCEPT !.cand[flaw[2]].distance_to_nearest = None]
      [] flaw[1] = "density_minus_one" ->
            [store EXCEPT !.pc4[flaw[2]].density = RInt(-1)]
      [] flaw[1] = "density_text" ->
            [store EXCEPT !.pc4[flaw[2]].density = Text]
      [] flaw[1] = "home_value_null" ->
            [store EXCEPT !.muni[flaw[2]].home_value = None]

RunStart ==
    /\ w = <<0, 0, 0, 0, 0>>
    /\ mainpc = "form"
    /\ municipalities = <<>> /\ total = 0 /\ completed = 0
    /\ progress_bar = [visible |-> FALSE, num |-> 0, den |-> 1]
    /\ queue = <<>> /\ future = <<>> /\ collected = {} /\ task = <<>>
    /\ starts = <<>> /\ write_log = <<>> /\ out = {} /\ faults = 0
    /\ db0 = db

RunIdle ==
    /\ db = [cand |-> <<>>, pc4 |-> <<>>, muni |-> <<>>]
    /\ w = <<0, 0, 0, 0, 0>>
    /\ mainpc = "idle"
    /\ municipalities = <<>> /\ total = 0 /\ completed = 0
    /\ progress_bar = [visible |-> FALSE, num |-> 0, den |-> 1]
    /\ queue = <<>> /\ future = <<>> /\ collected = {} /\ task = <<>>
    /\ starts = <<>> /\ write_log = <<>> /\ out = {} /\ faults = 0
    /\ db0 = db

\* The page is loaded over a store of 0..MaxRegions regions.
Init ==
    /\ FetchIdle
    /\ DensityIdle
    /\ \E n \in 0..MaxRegions, dup \in BOOLEAN :
         \E flaw \in Flaws(n) : db = Flawed(BaseStore(n, dup), flaw)
    /\ RunStart

Spec == Init /\ [][Next]_vars

\* The page is loaded over a store of one region whose candidates carry
\* every combination of usable and unusable scoring inputs.
Distances == {None, Text, RInt(2), Num(1, 2)}
Densities == {None, Text, RInt(-1), RInt(0), RInt(4)}
AttrSets ==
    {RegionAttrs(1), RegionAttrs(2),
     [RegionAttrs(1) EXCEPT !.home_value = None],
     [RegionAttrs(2) EXCEPT !.vehicles = Text],
     [RegionAttrs(1) EXCEPT !.population_density = None]}

ScoreInit ==
    /\ FetchIdle
    /\ DensityIdle
    /\ \E dist \in [1..MaxRecords -> Distances], dens \in [1..MaxRecords -> Densities],
          attrs \in AttrSets :
         db = [cand |-> [c \in 1..MaxRecords |->
                           [lat |-> RInt(c), lon |-> RInt(c),
                            distance_to_nearest |-> dist[c], pc4 |-> c,
                            score |-> None]],
               pc4 |-> [p \in 1..MaxRecords |-> [density |-> dens[p], municipality |-> 1]],
               muni |-> [m \in {1} |-> attrs]]
    /\ RunStart

SpecScore == ScoreInit /\ [][Next]_vars

\* One call of _fetch_overpass_data against an endpoint with any answers.
FetchInit ==
    /\ endpoint \in [1..MaxAnswers -> Outcomes]
    /\ attempt = 0 /\ fpc = "request" /\ requests = 0
    /\ sleeps = <<>> /\ fresult = <<>> /\ fexc = "none" /\ flog = <<>>
    /\ RunIdle
    /\ DensityIdle

SpecFetch == FetchInit /\ [][FetchNext]_vars

\* Bounds of the element lists drawn in ExtractInit: node ids 1..MaxNodeId
\* and up to MaxWays further elements.
MaxNodeId == 3
MaxWays == 2

\* Node lists a way of the answer may carry (4, 7 and 8 are ids the answer
\* may lack).
RefLists == {<<>>, <<1, 2>>, <<1, 2, 3>>, <<1, 2, 3, 1>>, <<1, 2, 4>>, <<4, 3, 2, 1>>}

OtherElements ==
    {Way(9, "tagged", TRUE, r) : r \in RefLists}
    \cup {Way(9, "tagged", FALSE, <<>>), Way(9, "missing", TRUE, <<1, 2, 3>>),
          Way(9, "empty", TRUE, <<1, 2, 3>>), Relation(9, "tagged")}

\* The nodes of the ids in S, in id order; those of odd id carry tags.
NodesOf(S) ==
    [k \in 1..Cardinality(S) |->
        Node(SortedSeq[S][k], IF SortedSeq[S][k] % 2 = 1 THEN "tagged" ELSE "missing")]

\* _build_node_index and _extract_features over any element list: some of
\* the nodes 1..MaxNodeId and up to MaxWays other elements, before or after
\* the nodes.
ExtractInit ==
    /\ \E S \in SUBSET (1..MaxNodeId), n \in 0..MaxWays, nodes_first \in BOOLEAN :
         \E others \in [1..n -> OtherElements] :
            elements = IF nodes_first THEN NodesOf(S) \o others ELSE others \o NodesOf(S)
    /\ area_km2 = 0 /\ node_idx = <<>> /\ features = <<>>
    /\ dpc = "index" /\ dexc = "none" /\ dresult = <<>> /\ dlog = <<>>
    /\ FetchIdle
    /\ RunIdle

SpecExtract == ExtractInit /\ [][ExtractNext]_vars

\* Areas (km2) of the geometry handed to calculate_ev_charging_density.
Areas == {0, 2}

\* One call of calculate_ev_charging_density against an endpoint with any
\* answers.
DensityInit ==
    /\ endpoint \in [1..MaxAnswers -> Outcomes]
    /\ attempt = 0 /\ fpc = "request" /\ requests = 0
    /\ sleeps = <<>> /\ fresult = <<>> /\ fexc = "none" /\ flog = <<>>
    /\ area_km2 \in Areas
    /\ elements = <<>> /\ node_idx = <<>> /\ features = <<>>
    /\ dpc = "fetch" /\ dexc = "none" /\ dresult = <<>> /\ dlog = <<>>
    /\ RunIdle

SpecDensity == DensityInit /\ [][DensityNext]_vars

(***************************************************************************)
(* Properties of _fetch_overpass_data (SpecFetch)                          *)
(***************************************************************************)

\* A request fails: no connection, a timeout, a status outside 2xx, or a
\* body that is not JSON.  It succeeds: a 2xx answer carrying a JSON object.
AnswerFails(o) ==
    o.net # "ok" \/ o.status \notin 200..299 \/ o.body.json = "invalid"
AnswerSucceeds(o) ==
    o.net = "ok" /\ o.status \in 200..299 /\ o.body.json = "object"
ElementsOf(o) == IF o.body.has_elements THEN o.body.elements ELSE <<>>

FetchEnded == fpc \in {"returned", "raised", "fell_through"}

\* C1: when the first k requests fail (k = 0, 1, 2) and the next succeeds,
\* the call returns the elements of that answer; when the first three
\* requests fail it returns the empty list.
C1_FirstSuccessReturned ==
    FetchEnded =>
        /\ \A k \in 0..2 :
             ((\A j \in 1..k : AnswerFails(endpoint[j])) /\ AnswerSucceeds(endpoint[k + 1]))
                => (fpc = "returned" /\ fresult = ElementsOf(endpoint[k + 1]))
        /\ (\A j \in 1..3 : AnswerFails(endpoint[j]))
                => (fpc = "returned" /\ fresult = <<>>)

C1_Witness ==
    /\ fpc = "returned"
    /\ requests = 3
    /\ AnswerFails(endpoint[1]) /\ AnswerFails(endpoint[2])
    /\ AnswerSucceeds(endpoint[3])
    /\ fresult = <<"n1", "w2">>

\* C2: whatever the endpoint answers, the call returns a list and no
\* exception leaves it.
C2_NeverRaises == fpc # "raised" /\ fpc # "fell_through" /\ fexc = "none"

\* C3: at most three requests, none after a successful one; a wait of 2
\* after the first failure and of 4 after the second, each before the next
\* request; after the third failure neither a wait nor a request.
C3_RetrySchedule ==
    /\ requests <= 3
    /\ \A j \in 1..(requests - 1) : ~AnswerSucceeds(endpoint[j])
    /\ Len(sleeps) <= 2
    /\ \A j \in 1..Len(sleeps) : sleeps[j] = 2 ^ j
    /\ fpc = "request" => Len(sleeps) = requests
    /\ fpc # "request" => Len(sleeps) = requests - 1
    /\ fpc = "sleep" => AnswerFails(endpoint[requests])
    /\ (FetchEnded /\ AnswerFails(endpoint[requests])) => requests = 3

C3_Witness ==
    /\ fpc = "returned"
    /\ requests = 3
    /\ \A j \in 1..3 : AnswerFails(endpoint[j])
    /\ sleeps = <<2, 4>>

(***************************************************************************)
(* Properties of the rescoring run (Spec, SpecScore)                       *)
(***************************************************************************)
RequiredInputs ==
    {"distance_to_nearest", "pc4_density", "home_value", "vehicles", "pop_density"}

MissingInput(row) == \E f \in RequiredInputs : row[f] = None
Unusable(row) ==
    \/ \E f \in RequiredInputs : row[f] = Text
    \/ row.pc4_density = RInt(-1)
Scoreable(row) == ~has_none(row) /\ ~Unusable(row)

RowsOf(i) == read_rows(db, municipalities[i])

RECURSIVE Flatten(_)
Flatten(chunks) == IF chunks = <<>> THEN <<>> ELSE Head(chunks) \o Flatten(Tail(chunks))

Coords(entries) == [k \in 1..Len(entries) |-> <<entries[k].lat, entries[k].lon>>]

ScoringErrors == {"TypeError", "ZeroDivisionError"}
Over == {"done", "failed"}

\* C4: process_municipality is entered once for each region the region
\* query returned, never twice, and when the summary is shown every one of
\* these calls has been entered and has ended.
C4_EachRegionOnce ==
    /\ \A i \in DOMAIN starts : starts[i] <= 1
    /\ mainpc # "form" =>
         /\ Len(municipalities) = Cardinality(DOMAIN db.muni)
         /\ Range(municipalities) = DOMAIN db.muni
         /\ DOMAIN starts = 1..Len(municipalities)
    /\ mainpc = "done" =>
         \A i \in 1..Len(municipalities) :
            starts[i] = 1 /\ future[i] \in Over /\ task[i].pc = "finished"

C4_Witness ==
    /\ mainpc = "done"
    /\ total > MAX_THREADS
    /\ \A i \in 1..total : starts[i] = 1
    /\ \E i \in 1..total : future[i] = "failed"

\* C5: the progress value lies in [0,1], is 1 only when every region task
\* is over, counts the tasks the loop has seen complete, and each change of
\* it is an advance by 1/total for one more completed task, failed or not.
C5_ProgressRange ==
    /\ progress_bar.den >= 1
    /\ 0 <= progress_bar.num /\ progress_bar.num <= progress_bar.den
    /\ (progress_bar.visible /\ progress_bar.num = progress_bar.den) =>
          (total >= 1 /\ \A i \in DOMAIN future : future[i] \in Over)
    /\ mainpc = "as_completed" => progress_bar.num = Cardinality(collected)
    /\ mainpc = "done" => (total = 0 \/ progress_bar.num = total)

C5_ProgressStep ==
    (progress_bar' # progress_bar /\ progress_bar.visible /\ progress_bar'.visible) =>
        /\ (progress_bar'.num * progress_bar.den - progress_bar.num * progress_bar'.den) * total
              = progress_bar.den * progress_bar'.den
        /\ \E i \in DOMAIN future :
              /\ i \notin collected
              /\ collected' = collected \cup {i}
              /\ future[i] \in Over

C5_Progress == [](C5_ProgressRange) /\ [][C5_ProgressStep]_vars

C5_Witness ==
    /\ progress_bar.visible
    /\ progress_bar.num = progress_bar.den
    /\ total > 1
    /\ \E i \in 1..total : future[i] = "failed"
    /\ \E i \in 1..total : future[i] = "done"

\* The scores the run has written at the coordinates of stored candidate c.
WrittenAt(c) ==
    {e.score : e \in {x \in UNION {Range(Flatten(write_log[i])) : i \in DOMAIN write_log} :
                        x.lat = db.cand[c].lat /\ x.lon = db.cand[c].lon}}

\* C6: a region task fails only for a cause of its own (a store fault it
\* met, an unusable record of its region); as long as the summary is not
\* shown the run can take a further step; and at the summary every task is
\* over, every task that did not fail has written all its scoreable
\* candidates, and what was written is still stored.
C6_FailureIsolated ==
    /\ mainpc # "done" => ENABLED Next
    /\ Cardinality({i \in DOMAIN task : task[i].exc = "ServiceUnavailable"}) = faults
    /\ \A i \in DOMAIN task :
         /\ future[i] = "failed" <=> task[i].exc # "none"
         /\ task[i].exc \in ScoringErrors =>
               \E k \in 1..Len(RowsOf(i)) : Unusable(RowsOf(i)[k])
    /\ mainpc = "done" =>
         /\ \A i \in DOMAIN task :
              /\ future[i] \in Over
              /\ future[i] = "done" =>
                    Coords(Flatten(write_log[i])) = Coords(SelectSeq(RowsOf(i), Scoreable))
         /\ \A c \in DOMAIN db.cand :
              WrittenAt(c) # {} => db.cand[c].score \in WrittenAt(c)

C6_Witness ==
    /\ mainpc = "done"
    /\ \E i, j \in 1..total :
         /\ future[i] = "failed" /\ task[i].exc \in ScoringErrors
         /\ future[j] = "done" /\ write_log[j] # <<>>

\* C7: at the summary the number of failures the run has recorded equals
\* the number of region tasks that raised.
C7_FailuresRecorded ==
    mainpc = "done" =>
        Cardinality({line \in out : line[1] \in {"error", "failed"}})
            = Cardinality({i \in DOMAIN future : future[i] = "failed"})

\* C8: a record with a missing scoring input never enters all_candidates
\* nor a write, the stored score at its coordinates stays unset, and it
\* raises nothing: a scoring error of a task always comes from a record
\* that has every input present.
C8_MissingInputUnscoreable ==
    \A i \in DOMAIN task :
        LET rows == RowsOf(i)
        IN /\ \A k \in 1..Len(rows) :
                MissingInput(rows[k]) =>
                   /\ <<rows[k].lat, rows[k].lon>>
                         \notin Range(Coords(task[i].all_candidates))
                   /\ <<rows[k].lat, rows[k].lon>>
                         \notin Range(Coords(Flatten(write_log[i])))
                   /\ \A c \in DOMAIN db.cand :
                         (db.cand[c].lat = rows[k].lat /\ db.cand[c].lon = rows[k].lon)
                            => db.cand[c].score = None
           /\ task[i].exc \in ScoringErrors =>
                \E k \in 1..Len(rows) : ~MissingInput(rows[k]) /\ Unusable(rows[k])

C8_Witness ==
    \E i \in DOMAIN task :
        /\ future[i] = "done"
        /\ Len(RowsOf(i)) = 2
        /\ MissingInput(RowsOf(i)[1])
        /\ Coords(Flatten(write_log[i])) = <<(<<RowsOf(i)[2].lat, RowsOf(i)[2].lon>>)>>

\* C9: no scoring error ever leaves a region task, and a task that ends
\* without a store fault has written every usable record of its region.
C9_UnusableSkipped ==
    \A i \in DOMAIN task :
        /\ task[i].exc \notin ScoringErrors
        /\ (future[i] \in Over /\ task[i].exc # "ServiceUnavailable") =>
              Coords(Flatten(write_log[i])) = Coords(SelectSeq(RowsOf(i), Scoreable))

\* The formula of the scoring engine over a common denominator:
\* (w1*d*1000 + w2*1000/(density+1) + w3*hv/100 + w4*veh + w5*pop) / 10000,
\* the weights in tenths.
FormulaScore(row, ww) ==
    RDiv(RAdd(RAdd(RAdd(RAdd(RMul(RInt(ww[1] * 1000), row.distance_to_nearest),
                             RDiv(RInt(ww[2] * 1000), RAdd(row.pc4_density, RInt(1)))),
                        RDiv(RMul(RInt(ww[3]), row.home_value), RInt(100))),
                   RMul(RInt(ww[4]), row.vehicles)),
              RMul(RInt(ww[5]), row.pop_density)),
         RInt(10000))

IsX(row) ==
    /\ row.distance_to_nearest = RInt(2) /\ row.pc4_density = RInt(4)
    /\ row.home_value = RInt(300000) /\ row.vehicles = RInt(5000)
    /\ row.pop_density = RInt(2000)
IsY(row) ==
    /\ row.distance_to_nearest = Num(1, 2) /\ row.pc4_density = RInt(0)
    /\ row.home_value = RInt(150000) /\ row.vehicles = RInt(2000)
    /\ row.pop_density = RInt(500)
DefaultWeights == <<30, 50, 5, 20, 10>>

\* C10: every entry of all_candidates carries the formula's value for the
\* record at its coordinates under the submitted weights (20.5 for X and
\* 11.75 for Y under the default weights), and a task that returns has
\* scored and stored exactly its scoreable records at these values.
C10_ScoreFormula ==
    \A i \in DOMAIN task :
        /\ task[i].all_candidates # <<>> =>
             LET rows == RowsOf(i)
             IN \A j \in 1..Len(task[i].all_candidates) :
                   \E k \in 1..Len(rows) :
                      LET e == task[i].all_candidates[j]
                          row == rows[k]
                      IN /\ e.lat = row.lat /\ e.lon = row.lon
                         /\ e.score = FormulaScore(row, w)
                         /\ (w = DefaultWeights /\ IsX(row)) => e.score = Num(41, 2)
                         /\ (w = DefaultWeights /\ IsY(row)) => e.score = Num(47, 4)
        /\ future[i] = "done" =>
             LET ok == SelectSeq(RowsOf(i), Scoreable)
             IN /\ task[i].all_candidates =
                      [k \in 1..Len(ok) |->
                          [lat |-> ok[k].lat, lon |-> ok[k].lon,
                           score |-> FormulaScore(ok[k], w)]]
                /\ Flatten(write_log[i]) = task[i].all_candidates

C10_Witness ==
    /\ mainpc = "done"
    /\ w = DefaultWeights
    /\ \E i \in DOMAIN task :
         /\ future[i] = "done"
         /\ IsX(RowsOf(i)[1])
         /\ db.cand[1].score = Num(41, 2)
         /\ Scoreable(RowsOf(i)[2])

(***************************************************************************)
(* A region without home value                                             *)
(***************************************************************************)

\* The store without region m.
Without(store, m) ==
    [store EXCEPT !.muni = [x \in (DOMAIN store.muni) \ {m} |-> store.muni[x]]]

IsPrefix(s, t) == Len(s) <= Len(t) /\ s = SubSeq(t, 1, Len(s))

\* C11: when the home value of a region is null, every record of that region
\* misses an input, its task builds no entry, writes nothing and raises no
\* scoring error, and every other task computes and writes the entries it
\* computes over the store without that region.
C11_NullRegionInert ==
    \A i \in DOMAIN task :
        db.muni[municipalities[i]].home_value = None =>
            /\ \A k \in 1..Len(RowsOf(i)) : MissingInput(RowsOf(i)[k])
            /\ task[i].all_candidates = <<>>
            /\ task[i].batches = <<>>
            /\ write_log[i] = <<>>
            /\ task[i].exc \notin ScoringErrors
            /\ \A j \in (DOMAIN task) \ {i} :
                  LET alone == score_loop[read_rows(Without(db, municipalities[i]),
                                                    municipalities[j]), w, <<>>]
                  IN /\ (task[j].pc = "write" \/ future[j] = "done") =>
                           task[j].all_candidates = alone.all_candidates
                     /\ IsPrefix(Flatten(write_log[j]), alone.all_candidates)
                     /\ future[j] = "done" =>
                           Flatten(write_log[j]) = alone.all_candidates

C11_Witness ==
    /\ mainpc = "done"
    /\ \E i, j \in DOMAIN task :
         /\ db.muni[municipalities[i]].home_value = None
         /\ RowsOf(i) # <<>>
         /\ future[i] = "done"
         /\ write_log[i] = <<>>
         /\ future[j] = "done"
         /\ Len(write_log[j]) > 1

(***************************************************************************)
(* Properties of calculate_ev_charging_density (SpecDensity) and of the    *)
(* extractor (SpecExtract)                                                 *)
(***************************************************************************)
NullPair == <<None, None>>

NodeIdsIn(els) == {els[k].id : k \in {j \in 1..Len(els) : els[j].type = "node"}}
ResolvedRefs(el, els) ==
    SelectSeq(IF el.has_nodes THEN el.nodes ELSE <<>>, LAMBDA n : n \in NodeIdsIn(els))
IsTagged(el) == el.tags \notin {"missing", "empty"}
YieldsFeature(el, els) ==
    /\ IsTagged(el)
    /\ \/ el.type = "node"
       \/ el.type = "way" /\ Len(ResolvedRefs(el, els)) >= 3

\* The coordinates behind the geometry of a feature of element el.
PlaceOf(el, els) ==
    IF el.type = "node" THEN <<(<<el.lon, el.lat>>)>>
    ELSE [k \in 1..Len(ResolvedRefs(el, els)) |->
             LET n == ResolvedRefs(el, els)[k]
                 at == CHOOSE j \in 1..Len(els) : els[j].type = "node" /\ els[j].id = n
             IN <<els[at].lon, els[at].lat>>]

\* C13: index and extraction raise nothing; the index holds the nodes of
\* the list; and the features are, in list order, one for each tagged node
\* and one for each tagged way with at least 3 resolved references, placed
\* on its resolved points only - nothing for a way with fewer.
C13_ExtractionTotal ==
    /\ dpc # "raised"
    /\ dexc = "none"
    /\ dpc \in {"extract", "count"} => DOMAIN node_idx = NodeIdsIn(elements)
    /\ dpc = "count" =>
          LET yielding == SelectSeq(elements, LAMBDA el : YieldsFeature(el, elements))
          IN /\ Len(features) = Len(yielding)
             /\ \A k \in 1..Len(yielding) :
                   /\ features[k].geometry.kind = "Point"
                   /\ features[k].geometry.of = PlaceOf(yielding[k], elements)
                   /\ features[k].tags = yielding[k].tags

C13_Witness ==
    /\ dpc = "count"
    /\ NodeIdsIn(elements) = {1, 2, 3}
    /\ \E i, j \in 1..Len(elements) :
          /\ elements[i].type = "way" /\ IsTagged(elements[i])
          /\ elements[i].nodes = <<4, 3, 2, 1>>
          /\ elements[j].type = "way" /\ IsTagged(elements[j])
          /\ elements[j].nodes = <<1, 2>>
    /\ Len(features) = 3

(***************************************************************************)
(* The score writes and the store (Spec)                                   *)
(***************************************************************************)
SameCoords(c, d) ==
    db.cand[c].lat = db.cand[d].lat /\ db.cand[c].lon = db.cand[d].lon

\* The entries of a batch at the coordinates of stored candidate c.
HitsIn(batch, c) ==
    {k \in 1..Len(batch) :
        batch[k].lat = db.cand[c].lat /\ batch[k].lon = db.cand[c].lon}

\* A stored candidate no write of the run has matched holds its score of
\* before the run, one that was matched holds a score written at its
\* coordinates.
ScoresComeFromWrites ==
    \A c \in DOMAIN db.cand :
        IF WrittenAt(c) = {} THEN db.cand[c].score = db0.cand[c].score
        ELSE db.cand[c].score \in WrittenAt(c)

\* C14 as stated: scores change by matching writes only, and at the end of
\* a run any two stored candidates with the same coordinates hold the same
\* score.
C14_SameCoordsAlwaysSameScore ==
    /\ ScoresComeFromWrites
    /\ mainpc = "done" =>
          \A c, d \in DOMAIN db.cand :
              SameCoords(c, d) => db.cand[c].score = db.cand[d].score

\* A step that hands a batch to the store sets the score of every stored
\* candidate at the coordinates of one of its entries, to one score per
\* coordinates, and leaves every other candidate as it was; no other step
\* changes the store.
C14_WriteStep ==
    /\ \A i \in DOMAIN write_log :
          write_log'[i] # write_log[i] =>
             LET batch == write_log'[i][Len(write_log'[i])]
             IN /\ DOMAIN db'.cand = DOMAIN db.cand
                /\ \A c \in DOMAIN db.cand :
                      IF HitsIn(batch, c) = {} THEN db'.cand[c] = db.cand[c]
                      ELSE /\ \E k \in HitsIn(batch, c) :
                                db'.cand[c] = [db.cand[c] EXCEPT !.score = batch[k].score]
                           /\ \A d \in DOMAIN db.cand :
                                SameCoords(c, d) => db'.cand[d].score = db'.cand[c].score
    /\ db' # db => \E i \in DOMAIN write_log : write_log'[i] # write_log[i]

\* C14 (amended): the write step is as above, and two stored candidates
\* with the same coordinates hold the same score once a write of the run
\* has matched these coordinates.
C14_MatchedByCoordinates ==
    /\ [][C14_WriteStep]_vars
    /\ [](/\ ScoresComeFromWrites
          /\ \A c, d \in DOMAIN db.cand :
                (SameCoords(c, d) /\ WrittenAt(c) # {}) =>
                    db.cand[c].score = db.cand[d].score)

C14_Witness ==
    /\ mainpc = "done"
    /\ \E c, d \in DOMAIN db.cand, i, j \in DOMAIN task :
          /\ c # d /\ SameCoords(c, d)
          /\ i # j /\ future[i] = "done" /\ future[j] = "done"
          /\ Cardinality(WrittenAt(c)) = 2
          /\ db0.cand[c].score # db0.cand[d].score
          /\ db.cand[c].score = db.cand[d].score

\* A stored candidate without its score.
Unscored(cand) == [cand EXCEPT !.score = None]

\* C15: in every state of a run the stored candidates are those of before
\* the run, each with its coordinates, distance and area, and the area and
\* region attributes are those of before the run; only scores differ.
C15_OnlyScoresChange ==
    /\ DOMAIN db.cand = DOMAIN db0.cand
    /\ \A c \in DOMAIN db.cand : Unscored(db.cand[c]) = Unscored(db0.cand[c])
    /\ db.pc4 = db0.pc4
    /\ db.muni = db0.muni

C15_Witness ==
    /\ mainpc = "done"
    /\ \E c \in DOMAIN db.cand : db.cand[c].score # db0.cand[c].score
    /\ \E i \in DOMAIN task : future[i] = "done" /\ Len(write_log[i]) > 1

\* The chunks of task i: those written, then those still to write.
ChunksOf(i) == write_log[i] \o task[i].batches

C16_ChunkShape ==
    \A i \in DOMAIN task :
        task[i].pc \in {"write", "finished"} =>
            /\ \A k \in 1..Len(ChunksOf(i)) :
                  /\ ChunksOf(i)[k] # <<>>
                  /\ Len(ChunksOf(i)[k]) <= BATCH_SIZE
                  /\ k < Len(ChunksOf(i)) => Len(ChunksOf(i)[k]) = BATCH_SIZE
            /\ Flatten(ChunksOf(i)) = task[i].all_candidates
            /\ task[i].pc = "write" =>
                  Coords(task[i].all_candidates) = Coords(SelectSeq(RowsOf(i), Scoreable))
            /\ future[i] = "done" => Flatten(write_log[i]) = task[i].all_candidates

C16_WriteOrder ==
    \A i \in DOMAIN write_log :
        write_log'[i] # write_log[i] =>
            /\ task[i].pc = "write"
            /\ task[i].batches # <<>>
            /\ write_log'[i] = Append(write_log[i], Head(task[i].batches))
            /\ task'[i].batches = Tail(task[i].batches)
            /\ \A j \in (DOMAIN write_log) \ {i} : write_log'[j] = write_log[j]

\* C16: the chunks of a task are non-empty, none longer than BATCH_SIZE and
\* all but the last of exactly that length; written and unwritten chunks
\* together are all_candidates, each scoreable record once and in read
\* order; a task that returns has written them all; and a step writes the
\* one next chunk of one task, after the chunks before it.
C16_ChunkedWrites == [](C16_ChunkShape) /\ [][C16_WriteOrder]_vars

C16_Witness ==
    \E i \in DOMAIN task :
        /\ future[i] = "done"
        /\ Len(write_log[i]) = 2
        /\ Len(write_log[i][1]) = BATCH_SIZE
        /\ Len(write_log[i][2]) = 1
        /\ Len(task[i].all_candidates) = BATCH_SIZE + 1

\* The tasks a failed write has ended, and the stored candidates at the
\* coordinates of an entry.
FailedInWrite(i) == task[i].exc = "ServiceUnavailable" /\ task[i].batches # <<>>
StoredAt(e) == {c \in DOMAIN db.cand : db.cand[c].lat = e.lat /\ db.cand[c].lon = e.lon}

\* Every store fault has ended the task it met, which keeps its written
\* chunks in the store and its other chunks unwritten.
FailedWriteEndsTask ==
    /\ Cardinality({i \in DOMAIN task : task[i].exc = "ServiceUnavailable"}) = faults
    /\ \A i \in DOMAIN task :
          FailedInWrite(i) =>
             /\ task[i].pc = "finished" /\ future[i] = "failed"
             /\ Flatten(write_log[i]) \o Flatten(task[i].batches) = task[i].all_candidates
             /\ \A k \in 1..Len(Flatten(write_log[i])) :
                   \A c \in StoredAt(Flatten(write_log[i])[k]) :
                       db.cand[c].score \in WrittenAt(c)

\* C17 as stated: after the failed write of a chunk the task is over, the
\* chunks before it stay written, and at the end of the run every stored
\* candidate at the coordinates of an unwritten entry holds its score of
\* before the run.
C17_UnwrittenKeepOldScores ==
    /\ FailedWriteEndsTask
    /\ mainpc = "done" =>
          \A i \in DOMAIN task :
             FailedInWrite(i) =>
                \A k \in 1..Len(Flatten(task[i].batches)) :
                   \A c \in StoredAt(Flatten(task[i].batches)[k]) :
                       db.cand[c].score = db0.cand[c].score

\* Once a write of a task has failed nothing more is written for it.
C17_NoWriteAfterFailure ==
    \A i \in DOMAIN task :
        FailedInWrite(i) =>
            /\ write_log'[i] = write_log[i]
            /\ task'[i] = task[i]
            /\ future'[i] = future[i]

\* C17 (amended): as stated, except that a candidate at the coordinates of
\* an unwritten entry holds its score of before the run only when no
\* successful write of the run has matched these coordinates.
C17_FailedWriteNotRetried ==
    /\ [][C17_NoWriteAfterFailure]_vars
    /\ [](/\ FailedWriteEndsTask
          /\ \A i \in DOMAIN task :
                FailedInWrite(i) =>
                   \A k \in 1..Len(Flatten(task[i].batches)) :
                      \A c \in StoredAt(Flatten(task[i].batches)[k]) :
                          WrittenAt(c) = {} => db.cand[c].score = db0.cand[c].score)

C17_Witness ==
    /\ mainpc = "done"
    /\ \E i \in DOMAIN task :
          /\ FailedInWrite(i)
          /\ Len(write_log[i]) = 1
          /\ \E c \in StoredAt(write_log[i][1][1]) : db.cand[c].score # db0.cand[c].score
          /\ \E c \in StoredAt(task[i].batches[1][1]) :
                WrittenAt(c) = {} /\ db.cand[c].score = db0.cand[c].score

\* No entry of the run carries a score for the coordinates of stored
\* candidate c.
NoScoredAt(c) ==
    \A j \in DOMAIN task :
        \A k \in 1..Len(task[j].all_candidates) :
            (task[j].all_candidates[k].lat = db.cand[c].lat
                /\ task[j].all_candidates[k].lon = db.cand[c].lon)
               => ~IsNum(task[j].all_candidates[k].score)

\* The stored candidates behind the records a task skips.
SkippedBy(i) ==
    {c \in CandsOf(db, municipalities[i]) : MissingInput(Row(db, c))}

\* C18: a stored candidate whose record is skipped holds, in every state
\* of the run, the score stored before the run, whatever it was, as long as
\* no entry of the run carries a score for its coordinates.
C18_SkippedKeepsScore ==
    \A i \in DOMAIN task :
        \A c \in SkippedBy(i) :
            NoScoredAt(c) => db.cand[c].score = db0.cand[c].score

\* A skipped candidate still holds a score of before the run next to
\* candidates that hold the score of this run's weights.
C18_Witness ==
    /\ mainpc = "done"
    /\ \E i \in DOMAIN task :
          /\ future[i] = "done"
          /\ \E c \in SkippedBy(i), d \in CandsOf(db, municipalities[i]) :
                /\ NoScoredAt(c)
                /\ IsNum(db0.cand[c].score)
                /\ db.cand[c].score = db0.cand[c].score
                /\ Scoreable(Row(db, d))
                /\ db.cand[d].score = FormulaScore(Row(db, d), w)
                /\ db.cand[d].score # db0.cand[d].score

DistinctCoords(store) ==
    \A c, d \in DOMAIN store.cand :
        (store.cand[c].lat = store.cand[d].lat /\ store.cand[c].lon = store.cand[d].lon)
            => c = d

NoTaskFails ==
    \A i \in DOMAIN future : future[i] = "done" /\ task[i].exc = "none"

\* The candidates of the pre-run store that lie in one of its regions and
\* whose record has every input the formula needs.
ScoreableIn(store) ==
    {c \in DOMAIN store.cand :
        \E m \in DOMAIN store.muni :
            c \in CandsOf(store, m) /\ Scoreable(Row(store, c))}

\* The store a run over `store` under weights ww is to leave: the formula's
\* value on every scoreable candidate, everything else as it was.
ExpectedStore(store, ww) ==
    [store EXCEPT !.cand =
        [c \in DOMAIN store.cand |->
            IF c \in ScoreableIn(store)
            THEN [store.cand[c] EXCEPT !.score = FormulaScore(Row(store, c), ww)]
            ELSE store.cand[c]]]

\* C19: over a store of pairwise distinct coordinates, a run in which no
\* region task fails ends, whatever the order in which the pool ran the
\* tasks and their chunk writes, in the one store that the pre-run store and
\* the weights determine: every scoreable candidate holds the formula's
\* value on its own inputs.
C19_FinalStoreDetermined ==
    (mainpc = "done" /\ DistinctCoords(db0) /\ NoTaskFails)
        => db = ExpectedStore(db0, w)

\* A run over distinct coordinates ended without a failure after two region
\* tasks wrote their chunks, one of them two chunks, and the store changed.
C19_Witness ==
    /\ mainpc = "done" /\ DistinctCoords(db0) /\ NoTaskFails
    /\ db = ExpectedStore(db0, w) /\ db # db0
    /\ \E i, j \in DOMAIN task :
          /\ i # j
          /\ Len(write_log[i]) >= 2 /\ Len(write_log[j]) >= 1
          /\ ScoreableIn(db0) \cap CandsOf(db0, municipalities[j]) # {}

====
